---- MODULE Spec2Model ----
(***************************************************************************)
(* Conversation buffering and escalation engine of slack-aiproject.        *)
(*                                                                         *)
(*   storage/memory.py          MessageMemory  (per-channel buffers)       *)
(*   tasks/question_tracker.py  QuestionTracker (unanswered questions)     *)
(*   tasks/scheduler.py         analyze_inactive_channels (inactivity      *)
(*                              sweep), start_scheduler                    *)
(*   slack/listener.py          handle_message (ingestion)                 *)
(*                                                                         *)
(* Threads: the Slack listener runs handle_message on a pool of worker     *)
(* threads (IngestThreads); APScheduler runs the inactivity sweep and the  *)
(* expiry sweep each on its own worker, one instance of a job at a time.   *)
(* The code takes no lock.  One step of the model is one access to a       *)
(* shared object (a dict lookup, a dict pop, a list append, a list store,  *)
(* one step of an iterator) together with the thread-local computation     *)
(* around it: a thread switch may fall between any two such accesses.      *)
(*                                                                         *)
(* Time is a discrete clock; datetime.now() reads it.                      *)
(***************************************************************************)
EXTENDS Integers, Sequences, FiniteSets, TLC

\* ------------------------------------------------------------- bounds
MaxTime == 4          \* the clock runs 0..MaxTime
MaxMsgs == 2          \* messages delivered by the gateway over a run
MemMaxTime == 2       \* the same two for the buffer store on its own
MemMaxMsgs == 2
SeqMaxMsgs == 3       \* and for calls that do not overlap
LiveMaxTime == 5      \* and for the tracker when nobody answers
LiveMaxMsgs == 1
MaxPosts == 2         \* calls of post_alert for a question, when calls may fail
MaxAsks == 2          \* calls of get_last_message_time outside a sweep
RepeatMaxTime == 6    \* the clock when a question is detected again
\* Durations in clock ticks; both are read from the environment by the code.
InactivityThreshold == 1
QuestionDeadline == 1

Channels == {"C1", "C2"}
IngestThreads == {"i1", "i2"}
\* client_msg_id: "" stands for an absent (None) or empty id, which is falsy.
Keys == {"", "k1"}
Texts == {"a", "b"}
\* Question identities (message timestamps); "" is an absent or empty one.
QIds == {"100", "200"}
\* "?" stands for a candidate question that has no "text" field.
NoText == "?"
Roles == {"internal", "client", "unknown"}

NoMsg == [id |-> 0, key |-> "", text |-> "", recv |-> 0]

\* listener.py:36-71  what handle_message looks at before it stores a message:
\* the keys "user" and "text", a bot_id, the answer of conversations_info
\* ("ok", "notok", or "raise" for an exception), whether the channel is in
\* the metadata, and whether get_user_email found an email.
GoodEvent == [user |-> TRUE, text |-> TRUE, bot |-> FALSE, info |-> "ok",
              monitored |-> TRUE, email |-> TRUE]

\* The events the gateway delivers: the good one, and it with one defect.
InboundEvents ==
  {GoodEvent,
   [GoodEvent EXCEPT !.user = FALSE], [GoodEvent EXCEPT !.text = FALSE],
   [GoodEvent EXCEPT !.bot = TRUE], [GoodEvent EXCEPT !.info = "notok"],
   [GoodEvent EXCEPT !.info = "raise"], [GoodEvent EXCEPT !.monitored = FALSE],
   [GoodEvent EXCEPT !.email = FALSE]}

\* memory.py:72  return None
NoTime == [some |-> FALSE, at |-> 0]

VARIABLES
  now,        \* the wall clock
  keys,       \* MessageMemory.buffers: its keys, in insertion order
  buffers,    \* MessageMemory.buffers: the list of each channel (<<>> when no key)
  batch,      \* analyze_inactive_channels: messages_to_process (a list object)
  nextId,     \* identity of the next message object
  ing,        \* per ingestion thread: position and locals of handle_message
  sw,         \* the inactivity sweep: position and locals
  unanswered, \* QuestionTracker.unanswered_questions, in insertion order
  ex,         \* the expiry sweep: position and locals
  \* history, read by the properties only
  done,       \* ids of the messages whose append() call has ended
  superseded, \* ids of the messages replaced by a message with the same key
  handed,     \* ids of the messages handed to the classifier
  asked,      \* get_last_message_time called outside a sweep: the latest call
  inbound,    \* per ingestion thread: the latest event handle_message was given
  daily,      \* run_daily_summaries: position and locals
  alerts,     \* per question identity: expiry alerts dispatched so far
  outcome,    \* per identity, for its latest registration: how it left the tracker
  posts       \* per alert kind and channel: alerts the inactivity sweep dispatched

vars == <<now, keys, buffers, batch, nextId, ing, sw, unanswered, ex,
          done, superseded, handed, asked, inbound, daily, alerts, outcome,
          posts>>

memVars == <<keys, buffers, batch>>
histMem == <<done, superseded, handed, asked, inbound, daily>>
histQ == <<alerts, outcome, posts>>

\* scheduler.py:69 and 77: the alerts of a batch.
PostKinds == {"fire", "testimonial"}

\* ------------------------------------------------------------ helpers
InSeq(x, s) == \E i \in 1..Len(s) : s[i] = x

RemoveAt(s, i) == SubSeq(s, 1, i - 1) \o SubSeq(s, i + 1, Len(s))

Without(s, x) == SelectSeq(s, LAMBDA y : y # x)

\* message.get("channel_id") and message.get("thread_ts") of a message that
\* has none.
NoChannel == "-"

NoThread == "-"

IdleIng == [pc |-> "idle", chan |-> NoChannel, msg |-> NoMsg, role |-> "-",
            thread |-> NoThread,
            idx |-> 0, ref |-> "none", list |-> <<>>,
            nsize |-> 0, nfound |-> <<>>, dirty |-> FALSE]

\* keys, ki: the copy of the dict's keys and the place of the for loop in it;
\* queue, qi: the questions handed to add_unanswered_questions and the place
\* of its loop; kept: the channels this run found buffered but still active,
\* each with the last activity it read (history, read by the properties only).
\* The parsed object of the classifier (trigger_engine.py:101-110); a key
\* that is missing reads as unset.
Analysis(f, ft, t, tt, iq, qs) ==
  [parsed |-> TRUE, is_fire |-> f, fire_text |-> ft, is_testimonial |-> t,
   testimonial_text |-> tt, is_question |-> iq, questions |-> qs]

\* trigger_engine.py:49, 115, 118  None: the classifier failed, or what it
\* said is not a JSON object of the expected shape.
NoAnalysis ==
  [parsed |-> FALSE, is_fire |-> FALSE, fire_text |-> "",
   is_testimonial |-> FALSE, testimonial_text |-> "", is_question |-> FALSE,
   questions |-> <<>>]

\* analysis: what analyze_message_batch returned; say: the alerts of the
\* batch that are still to be posted.
IdleSweep == [pc |-> "idle", now |-> 0, keys |-> <<>>, ki |-> 0, chan |-> "-",
              analysis |-> NoAnalysis, say |-> <<>>, queue |-> <<>>, qi |-> 0,
              kept |-> {}]

\* question_tracker.py:91  the local "question" before it is assigned
NoQuestion == [ts |-> "", text |-> "", chan |-> "-", deadline |-> 0]

\* keys, ki: as for the sweep; q: the entry the run is alerting about; seen,
\* base: the tracker and the alert counts as the run found them (history,
\* read by the properties only).
IdleExpiry == [pc |-> "idle", now |-> 0, keys |-> <<>>, ki |-> 0,
               q |-> NoQuestion, seen |-> <<>>, base |-> <<>>]

\* i: the index in the monitored channels; requested: the channels whose
\* summary the run has asked for.
IdleDaily == [pc |-> "idle", i |-> 0, requested |-> {}]

\* The threads holding a reference to list object r ("live" is per channel).
Holders(I, r) == {u \in IngestThreads : I[u].ref = r}

\* The list object thread t's reference points to: the channel's list in the
\* dict, the list the sweep popped, or a popped list the sweep has let go of,
\* kept in the slot of one of the threads that still hold it.
ListOf(t) ==
  LET r == ing[t].ref
  IN IF r = "live" THEN buffers[ing[t].chan]
     ELSE IF r = "batch" THEN batch
     ELSE IF r \in IngestThreads THEN ing[r].list
     ELSE <<>>

\* Thread t lets go of its reference; a list it kept for others moves on.
Release(I, t) ==
  LET r == I[t].ref
      rest == Holders(I, r) \ {t}
  IN IF r = t /\ rest # {}
     THEN LET o == CHOOSE u \in rest : TRUE
          IN [u \in IngestThreads |->
                IF u = t THEN [I[u] EXCEPT !.ref = "none", !.list = <<>>]
                ELSE IF u \in rest
                     THEN [I[u] EXCEPT !.ref = o,
                                       !.list = IF u = o THEN I[t].list ELSE <<>>]
                     ELSE I[u]]
     ELSE IF r = t
          THEN [I EXCEPT ![t].ref = "none", ![t].list = <<>>]
          ELSE [I EXCEPT ![t].ref = "none"]

\* self.buffers[channel_id] on the defaultdict: a missing key is created.
KeysAfterLookup(c) == IF InSeq(c, keys) THEN keys ELSE Append(keys, c)

\* The sweep lets go of the list it popped: threads that still hold it keep it.
DropBatch(I) ==
  LET H == Holders(I, "batch")
  IN IF H = {} THEN I
     ELSE LET o == CHOOSE u \in H : TRUE
          IN [u \in IngestThreads |->
                IF u \in H
                THEN [I[u] EXCEPT !.ref = o,
                                  !.list = IF u = o THEN batch ELSE <<>>]
                ELSE I[u]]

Ids(L) == {L[i].id : i \in 1..Len(L)}

\* ------------------------------------------------------------- state
Init ==
  /\ now = 0
  /\ keys = <<>>
  /\ buffers = [c \in Channels |-> <<>>]
  /\ batch = <<>>
  /\ nextId = 1
  /\ ing = [t \in IngestThreads |-> IdleIng]
  /\ sw = IdleSweep
  /\ unanswered = <<>>
  /\ ex = IdleExpiry
  /\ done = {}
  /\ superseded = {}
  /\ handed = {}
  /\ daily = IdleDaily
  /\ inbound = [t \in IngestThreads |-> [id |-> 0, ev |-> GoodEvent]]
  /\ asked = [n |-> 0, chan |-> "-", res |-> NoTime]
  /\ alerts = [q \in QIds |-> 0]
  /\ outcome = [q \in QIds |-> {}]
  /\ posts = [k \in PostKinds |-> [c \in Channels |-> 0]]

Tick(maxTime) ==
  /\ now < maxTime
  /\ now' = now + 1
  /\ UNCHANGED <<memVars, nextId, ing, sw, unanswered, ex, histMem, histQ>>

\* ------------------------------------------------- handle_message
\* A validation that looks at the fields of the event only.
RejectedByFields(e) == ~e.user \/ ~e.text \/ e.bot

\* listener.py:39-71  the early returns of handle_message
Rejected(e) ==
  \/ ~e.user \/ ~e.text          \* 39-40
  \/ e.bot                        \* 47-48
  \/ e.info # "ok"                \* 51-60
  \/ ~e.monitored                 \* 63-65
  \/ ~e.email                     \* 68-71

\* listener.py:30-71  handle_message is given the next event of the gateway
\* and validates it, with its external lookups: a rejected event is done
\* with, an accepted one goes on to line 79.
Deliver(t, maxMsgs) ==
  /\ ing[t].pc = "idle"
  /\ nextId <= maxMsgs
  /\ inbound[t].id # nextId
  /\ \E e \in InboundEvents :
        /\ inbound' = [inbound EXCEPT ![t] = [id |-> nextId, ev |-> e]]
        /\ nextId' = IF Rejected(e) THEN nextId + 1 ELSE nextId
  /\ UNCHANGED <<now, memVars, ing, sw, unanswered, ex,
                 done, superseded, handed, asked, daily, histQ>>

\* listener.py:79  the event thread t holds has passed the validation.
Accepted(t) == inbound[t].id = nextId

\* ------------------------------------------- MessageMemory.append
\* memory.py:37  msg.get('client_msg_id') == client_msg_id
MatchAt(L, i, k) == L[i].key = k

\* A replacement that moves the message to the end of the list.
ReplaceAtEnd(L, i, m) == Append(RemoveAt(L, i), m)

\* memory.py:38  buffers[channel_id][i] = message
ReplaceAt(L, i, m) == [L EXCEPT ![i] = m]

\* A test that takes an absent key for a key.
DedupsAlways(k) == TRUE

\* memory.py:35  if client_msg_id:
Dedups(k) == k # ""

\* listener.py:79-91, memory.py:31-36.  A valid message reaches append():
\* received_at is set; with a client_msg_id the scan of line 36 takes the
\* channel's list (the defaultdict creates it), without one line 43 looks
\* the list up.  The gateway delivers at most maxMsgs messages, with channel,
\* client_msg_id, text and author role drawn from CS, KS, XS and RS.
BeginAppend(t, maxMsgs, CS, KS, XS, RS) ==
  /\ ing[t].pc = "idle"
  /\ nextId <= maxMsgs
  /\ \E c \in CS, k \in KS, x \in XS, r \in RS :
        ing' = [ing EXCEPT ![t] =
                  [IdleIng EXCEPT !.pc = IF Dedups(k) THEN "scan" ELSE "store",
                                  !.chan = c,
                                  !.msg = [id |-> nextId, key |-> k, text |-> x,
                                           recv |-> now],
                                  !.role = r,
                                  !.idx = IF Dedups(k) THEN 1 ELSE 0,
                                  !.ref = "live"]]
        /\ keys' = KeysAfterLookup(c)
  /\ nextId' = nextId + 1
  /\ UNCHANGED <<now, buffers, batch, sw, unanswered, ex, histMem, histQ>>

\* memory.py:36-37  one step of the for loop over the list taken at line 36.
Scan(t) ==
  /\ ing[t].pc = "scan"
  /\ LET me == ing[t]
         L == ListOf(t)
     IN IF me.idx > Len(L)
        THEN \* no match: on to line 43
             ing' = [Release(ing, t) EXCEPT ![t].pc = "lookup", ![t].idx = 0]
        ELSE IF MatchAt(L, me.idx, me.msg.key)
        THEN \* match at idx: on to line 38
             ing' = [Release(ing, t) EXCEPT ![t].pc = "lookup"]
        ELSE ing' = [ing EXCEPT ![t].idx = me.idx + 1]
  /\ UNCHANGED <<now, memVars, nextId, sw, unanswered, ex, histMem, histQ>>

\* memory.py:38 and 43  self.buffers[channel_id]: the lookup before the
\* store or the append.
Lookup(t) ==
  /\ ing[t].pc = "lookup"
  /\ keys' = KeysAfterLookup(ing[t].chan)
  /\ ing' = [ing EXCEPT ![t].pc = "store", ![t].ref = "live"]
  /\ UNCHANGED <<now, buffers, batch, nextId, sw, unanswered, ex, histMem, histQ>>

\* memory.py:38 (idx > 0: store at the matched index, IndexError when the
\* list is shorter) and memory.py:43 (idx = 0: append), on the list object
\* looked up before.  Line 44 looks the channel up again for its log, which
\* creates the key when the sweep has popped it.  After it append() returns
\* and handle_message goes on to line 94; an IndexError ends handle_message.
Store(t) ==
  /\ ing[t].pc = "store"
  /\ LET me == ing[t]
         L == ListOf(t)
         i == me.idx
         fails == i > Len(L)
         L2 == IF i = 0 THEN Append(L, me.msg)
               ELSE IF fails THEN L ELSE ReplaceAt(L, i, me.msg)
         I1 == IF me.ref \in IngestThreads
               THEN [ing EXCEPT ![me.ref].list = L2] ELSE ing
         I2 == Release(I1, t)
     IN /\ buffers' = IF me.ref = "live"
                      THEN [buffers EXCEPT ![me.chan] = L2] ELSE buffers
        /\ batch' = IF me.ref = "batch" THEN L2 ELSE batch
        /\ ing' = [I2 EXCEPT ![t] =
                     IF fails THEN IdleIng
                     ELSE [IdleIng EXCEPT !.pc = "notify", !.chan = me.chan,
                                          !.role = me.role, !.msg = me.msg]]
        /\ keys' = IF i = 0 THEN KeysAfterLookup(me.chan) ELSE keys
        /\ done' = done \cup {me.msg.id}
        /\ superseded' = IF i > 0 /\ ~fails /\ L[i].key = me.msg.key
                         THEN superseded \cup {L[i].id} ELSE superseded
  /\ UNCHANGED <<now, nextId, sw, unanswered, ex, handed, asked, inbound, daily,
                 histQ>>

\* ------------------------------------------------ QuestionTracker
Tracked(U, ts) == \E i \in 1..Len(U) : U[i].ts = ts

Entry(U, ts) == U[CHOOSE i \in 1..Len(U) : U[i].ts = ts]

\* dict.pop(question_ts)
PopQ(U, ts) == SelectSeq(U, LAMBDA q : q.ts # ts)

KeysOf(U) == [i \in 1..Len(U) |-> U[i].ts]

\* question_tracker.py:66  user_role == "internal" and channel_id
Answers(r) == r = "internal"

\* question_tracker.py:69  q["channel_id"] == channel_id
InChannel(q, c) == q.chan = c

\* A deadline test that never finds a question expired.
ExpiredNever(nw, q) == FALSE

\* A deadline test that holds at the deadline already.
ExpiredAtDeadline(nw, q) == nw >= q.deadline

\* question_tracker.py:92  now > question["deadline"]
Expired(nw, q) == nw > q.deadline

\* A change of the dict is seen by the iterators that are open on it.
Touched(I) ==
  [u \in IngestThreads |->
     IF I[u].pc = "n_iter" THEN [I[u] EXCEPT !.dirty = TRUE] ELSE I[u]]

\* question_tracker.py:63-69  handle_new_message: for an internal author the
\* comprehension opens an iterator on unanswered_questions.items().
NotifyBegin(t) ==
  /\ ing[t].pc = "notify"
  /\ ing' = [ing EXCEPT ![t] =
               IF Answers(ing[t].role) /\ ing[t].chan # NoChannel
               THEN [@ EXCEPT !.pc = "n_iter", !.idx = 1,
                              !.nsize = Len(unanswered)]
               ELSE IdleIng]
  /\ UNCHANGED <<now, memVars, nextId, sw, unanswered, ex, histMem, histQ>>

\* question_tracker.py:128-129  handle_new_message called on a message of the
\* caller's making, as the module does when run as a script: a channel_id or
\* none, a thread_ts or none.
CallHandle(t, CS, HS, RS) ==
  /\ ing[t].pc = "idle"
  /\ \E c \in CS, h \in HS, r \in RS :
        ing' = [ing EXCEPT ![t] =
                  [IdleIng EXCEPT !.pc = "notify", !.chan = c, !.thread = h,
                                  !.role = r]]
  /\ UNCHANGED <<now, memVars, nextId, sw, unanswered, ex, histMem, histQ>>

\* question_tracker.py:68-70  one step of the comprehension.  A dict whose
\* size changed under the iterator raises RuntimeError, which ends
\* handle_message; one that changed and has its size again may raise too.
NotifyIter(t) ==
  /\ ing[t].pc = "n_iter"
  /\ LET me == ing[t]
         raise == ing' = [ing EXCEPT ![t] = IdleIng]
         step ==
           IF me.idx > Len(unanswered)
           THEN ing' = [ing EXCEPT ![t] =
                          IF me.nfound = <<>> THEN IdleIng
                          ELSE [@ EXCEPT !.pc = "n_mark", !.idx = 0,
                                         !.nsize = 0, !.dirty = FALSE]]
           ELSE ing' = [ing EXCEPT ![t] =
                          [@ EXCEPT !.idx = me.idx + 1,
                                    !.nfound =
                                       IF InChannel(unanswered[me.idx], me.chan)
                                       THEN Append(@, unanswered[me.idx].ts)
                                       ELSE @]]
     IN IF Len(unanswered) # me.nsize THEN raise
        ELSE IF me.dirty THEN raise \/ step
        ELSE step
  /\ UNCHANGED <<now, memVars, nextId, sw, unanswered, ex, histMem, histQ>>

\* A loop that ends after its first entry.
NextMarkStops(me) == IdleIng

\* question_tracker.py:73  for ts in questions_in_channel: the ingest locals
\* after one entry is dealt with.
NextMark(me) ==
  IF Len(me.nfound) <= 1 THEN IdleIng
  ELSE [me EXCEPT !.pc = "n_mark", !.nfound = Tail(@)]

\* question_tracker.py:80  if question_ts in self.unanswered_questions
NotifyCheck(t) ==
  /\ ing[t].pc = "n_mark"
  /\ ing' = [ing EXCEPT ![t] =
               IF Tracked(unanswered, Head(ing[t].nfound))
               THEN [@ EXCEPT !.pc = "n_pop"]
               ELSE NextMark(@)]
  /\ UNCHANGED <<now, memVars, nextId, sw, unanswered, ex, histMem, histQ>>

\* question_tracker.py:81  self.unanswered_questions.pop(question_ts):
\* KeyError when the entry has gone since line 80.
NotifyPop(t) ==
  /\ ing[t].pc = "n_pop"
  /\ LET ts == Head(ing[t].nfound)
     IN IF Tracked(unanswered, ts)
        THEN /\ unanswered' = PopQ(unanswered, ts)
             /\ outcome' = [outcome EXCEPT ![ts] = @ \cup {"answered"}]
             /\ ing' = [Touched(ing) EXCEPT ![t] = NextMark(ing[t])]
        ELSE /\ ing' = [ing EXCEPT ![t] = IdleIng]
             /\ UNCHANGED <<unanswered, outcome>>
  /\ UNCHANGED <<now, memVars, nextId, sw, ex, histMem, alerts, posts>>

\* ------------------------------------ check_for_expired_questions
\* A run that ends after its first question.
ExpiryNextStops(e) == IdleExpiry

\* question_tracker.py:90  for question_ts in list(...): the run moves on to
\* the next key of its copy, or is over.
ExpiryNext(e) ==
  IF e.ki = Len(e.keys) THEN IdleExpiry
  ELSE [e EXCEPT !.pc = "read", !.ki = @ + 1, !.q = NoQuestion]

\* question_tracker.py:88-90  now, and the copy of the keys.
ExpiryStart ==
  /\ ex.pc = "idle"
  /\ unanswered # <<>>
  /\ ex' = [pc |-> "read", now |-> now, keys |-> KeysOf(unanswered), ki |-> 1,
            q |-> NoQuestion, seen |-> unanswered, base |-> alerts]
  /\ UNCHANGED <<now, memVars, nextId, ing, sw, unanswered, histMem, histQ>>

\* question_tracker.py:91-92  read the entry (KeyError when it has gone) and
\* compare its deadline.
ExpiryRead ==
  /\ ex.pc = "read"
  /\ LET ts == ex.keys[ex.ki]
     IN ex' = IF ~Tracked(unanswered, ts) THEN IdleExpiry
              ELSE IF Expired(ex.now, Entry(unanswered, ts))
                   THEN [ex EXCEPT !.pc = "post",
                                   !.q = Entry(unanswered, ts)]
                   ELSE ExpiryNext(ex)
  /\ UNCHANGED <<now, memVars, nextId, ing, sw, unanswered, histMem, histQ>>

\* question_tracker.py:93-106  the alert is built from ex.q, the entry read at
\* line 91, and post_alert is called.
ExpiryPost ==
  /\ ex.pc = "post"
  /\ LET ts == ex.keys[ex.ki]
     IN /\ alerts' = [alerts EXCEPT ![ts] = @ + 1]
        /\ outcome' = [outcome EXCEPT ![ts] = @ \cup {"alerted"}]
  /\ ex' = [ex EXCEPT !.pc = "pop"]
  /\ UNCHANGED <<now, memVars, nextId, ing, sw, unanswered, histMem, posts>>

\* api.py:107-117  how a call of post_alert may fail: "refused", not ok or a
\* SlackApiError, which post_alert logs; "raised", any other exception of the
\* client (a connection that fails, a timeout), which post_alert lets through.
PostFailures == {"refused", "raised"}

\* question_tracker.py:93-109  post_alert fails: after a logged failure the
\* run goes on to line 109, an exception ends the run before it.
ExpiryPostFails ==
  /\ ex.pc = "post"
  /\ LET ts == ex.keys[ex.ki]
     IN /\ alerts[ts] < MaxPosts
        /\ alerts' = [alerts EXCEPT ![ts] = @ + 1]
        /\ outcome' = [outcome EXCEPT ![ts] = @ \cup {"failed"}]
  /\ \E f \in PostFailures :
        ex' = IF f = "refused" THEN [ex EXCEPT !.pc = "pop"] ELSE IdleExpiry
  /\ UNCHANGED <<now, memVars, nextId, ing, sw, unanswered, histMem, posts>>

\* question_tracker.py:109  self.unanswered_questions.pop(question_ts):
\* KeyError, which ends the run, when the entry has gone.
ExpiryPop ==
  /\ ex.pc = "pop"
  /\ LET ts == ex.keys[ex.ki]
     IN IF Tracked(unanswered, ts)
        THEN /\ unanswered' = PopQ(unanswered, ts)
             /\ ing' = Touched(ing)
             /\ ex' = ExpiryNext(ex)
        ELSE /\ ex' = IdleExpiry
             /\ UNCHANGED <<unanswered, ing>>
  /\ UNCHANGED <<now, memVars, nextId, sw, histMem, histQ>>

\* -------------------------------------- analyze_inactive_channels
\* An inactivity test that holds at the threshold already.
InactiveAtThreshold(nw, last) == nw - last >= InactivityThreshold

\* scheduler.py:38  now - last_message_time > timedelta(minutes=THRESHOLD)
Inactive(nw, last) == nw - last > InactivityThreshold

\* memory.py:70-72  get_last_message_time: None (0 here, with HasLast false)
\* for an empty list, else received_at of the last entry.
HasLast(L) == L # <<>>

LastTime(L) == L[Len(L)].recv

\* A result that is a timestamp also for an empty list.
GetLastZero(L) == [some |-> TRUE, at |-> IF HasLast(L) THEN LastTime(L) ELSE 0]

\* memory.py:70-72  the result of get_last_message_time for list L
GetLast(L) == IF HasLast(L) THEN [some |-> TRUE, at |-> LastTime(L)] ELSE NoTime

\* memory.py:60-72  get_last_message_time(c) called outside a sweep, as in
\* memory.py:88 and 101.  Its only other caller is the sweep, which is also
\* the only caller of get_and_clear_buffer: the call never overlaps a drain,
\* and appends only lengthen the list between its two lookups.
AskLast(c) ==
  /\ sw.pc = "idle"
  /\ asked.n < MaxAsks
  /\ asked' = [n |-> asked.n + 1, chan |-> c, res |-> GetLast(buffers[c])]
  /\ keys' = KeysAfterLookup(c)
  /\ UNCHANGED <<now, buffers, batch, nextId, ing, sw, unanswered, ex,
                 done, superseded, handed, inbound, daily, histQ>>

\* A drain that reads the list and leaves it in the dict.
AfterPopKeeps(B, c) == B

\* A drain that empties every channel.
AfterPopAll(B, c) == [d \in DOMAIN B |-> <<>>]

\* memory.py:56  what buffers.pop(channel_id, []) leaves in the dict.
AfterPop(B, c) == [B EXCEPT ![c] = <<>>]

\* What the classifier may answer (trigger_engine.py:88-118): None on an
\* error or on unparseable JSON, else the parsed object.
Candidate(ts, text) == [ts |-> ts, text |-> text]

Candidates ==
  {Candidate("100", "x"), Candidate("100", "y"), Candidate("200", "x"),
   Candidate("", "x"), Candidate("100", NoText)}

QuestionLists ==
  {<<>>} \cup {<<q>> : q \in Candidates}
         \cup {<<p, Candidate("200", "x")>> : p \in Candidates}

\* An answer with no fire and no testimonial.
Quiet(iq, qs) == Analysis(FALSE, "", FALSE, "", iq, qs)

\* With is_question unset the questions play no part: one such answer stands
\* for them all.
Analyses ==
  {Quiet(TRUE, qs) : qs \in QuestionLists}
    \cup {Quiet(FALSE, <<Candidate("100", "x")>>)}

\* Every answer: fire and testimonial set or not, with a text or without.
AllAnalyses ==
  {Analysis(f, ft, t, tt, iq, qs) :
     f \in BOOLEAN, ft \in {"", "f"}, t \in BOOLEAN, tt \in {"", "t"},
     iq \in BOOLEAN, qs \in QuestionLists}

\* The sweep moves on to the next channel of its copy of the keys, or ends.
SweepNext(w) ==
  IF w.ki = Len(w.keys) THEN IdleSweep
  ELSE [w EXCEPT !.pc = "check", !.ki = @ + 1, !.chan = "-",
                 !.analysis = NoAnalysis, !.say = <<>>, !.queue = <<>>,
                 !.qi = 0]

\* scheduler.py:32-35  now, and the copy of the keys.
SweepStart ==
  /\ sw.pc = "idle"
  /\ keys # <<>>
  /\ sw' = [IdleSweep EXCEPT !.pc = "check", !.now = now, !.keys = keys,
                             !.ki = 1]
  /\ UNCHANGED <<now, memVars, nextId, ing, unanswered, ex, histMem, histQ>>

\* scheduler.py:36-38  get_last_message_time and the inactivity test.
SweepCheck ==
  /\ sw.pc = "check"
  /\ LET c == sw.keys[sw.ki]
         L == buffers[c]
     IN /\ keys' = KeysAfterLookup(c)
        /\ sw' = IF HasLast(L) /\ Inactive(sw.now, LastTime(L))
                 THEN [sw EXCEPT !.pc = "drain", !.chan = c]
                 ELSE SweepNext([sw EXCEPT !.kept =
                                   IF HasLast(L)
                                   THEN @ \cup {[chan |-> c, last |-> LastTime(L)]}
                                   ELSE @])
  /\ UNCHANGED <<now, buffers, batch, nextId, ing, unanswered, ex, histMem, histQ>>

\* scheduler.py:42-45, memory.py:56  get_and_clear_buffer: the list leaves the
\* dict with its key; whoever holds the list still holds it.
SweepDrain ==
  /\ sw.pc = "drain"
  /\ LET c == sw.chan
     IN /\ batch' = buffers[c]
        /\ buffers' = AfterPop(buffers, c)
        /\ keys' = Without(keys, c)
        /\ ing' = [u \in IngestThreads |->
                     IF ing[u].ref = "live" /\ ing[u].chan = c
                     THEN [ing[u] EXCEPT !.ref = "batch"] ELSE ing[u]]
        /\ sw' = IF buffers[c] = <<>> THEN SweepNext(sw)
                 ELSE [sw EXCEPT !.pc = "classify"]
  /\ UNCHANGED <<now, nextId, unanswered, ex, histMem, histQ>>

\* scheduler.py:80  analysis.get("is_question") and analysis.get("questions")
HasQuestions(a) == a.is_question /\ a.questions # <<>>

\* A test of the flag alone.
HasFireFlagOnly(a) == a.is_fire

\* scheduler.py:63  analysis.get("is_fire") and analysis.get("fire_text")
HasFire(a) == a.is_fire /\ a.fire_text # ""

\* scheduler.py:71  analysis.get("is_testimonial") and analysis.get("testimonial_text")
HasTestimonial(a) == a.is_testimonial /\ a.testimonial_text # ""

\* scheduler.py:63-77  the alerts the sweep posts for an answer, in order.
Say(a) ==
  (IF HasFire(a) THEN <<"fire">> ELSE <<>>)
    \o (IF HasTestimonial(a) THEN <<"testimonial">> ELSE <<>>)

\* A failure after which the sweep never takes another step.
GiveUpForGood ==
  /\ sw' = [sw EXCEPT !.pc = "stopped"]
  /\ UNCHANGED <<ing, batch>>

\* The sweep gives the channel up: the batch is let go of.
GiveUp ==
  /\ sw' = SweepNext(sw)
  /\ ing' = DropBatch(ing)
  /\ batch' = <<>>

\* scheduler.py:63-86  what is left to do for the batch: the alerts, then the
\* questions, then the next channel.
Proceed(w) ==
  IF w.say # <<>>
  THEN sw' = [w EXCEPT !.pc = "alert"] /\ UNCHANGED <<ing, batch>>
  ELSE IF w.queue # <<>>
  THEN sw' = [w EXCEPT !.pc = "register", !.qi = 1] /\ UNCHANGED <<ing, batch>>
  ELSE GiveUp

\* scheduler.py:49-56  the batch goes to analyze_message_batch.  AS: the
\* objects the classifier may answer; it may fail as well.
SweepClassify(AS) ==
  /\ sw.pc = "classify"
  /\ handed' = handed \cup Ids(batch)
  /\ \E a \in AS \cup {NoAnalysis} :
        sw' = [sw EXCEPT !.pc = "answer", !.analysis = a]
  /\ UNCHANGED <<now, memVars, nextId, ing, unanswered, ex, done, superseded,
                  asked, inbound, daily, histQ>>

\* A failure path that puts the batch back at the head of the buffer.
PutBackAll(a, L) == IF a.parsed THEN <<>> ELSE L

\* scheduler.py:58-60  the messages of batch L that go back to the buffer
\* after answer a: none, the sweep goes on to the next channel.
PutBack(a, L) == <<>>

\* scheduler.py:58  if not analysis: None, and an object without any key.
Failed(a) == ~a.parsed

\* scheduler.py:58-80  on a failure the channel is given up, else the alerts
\* and the questions of the answer are taken up.
SweepAnswer ==
  /\ sw.pc = "answer"
  /\ LET a == sw.analysis
     IN /\ IF Failed(a) THEN GiveUp
           ELSE Proceed([sw EXCEPT !.analysis = NoAnalysis,
                                   !.say = Say(a),
                                   !.queue = IF HasQuestions(a)
                                             THEN a.questions ELSE <<>>])
        /\ buffers' = [buffers EXCEPT ![sw.chan] = PutBack(a, batch) \o @]
  /\ UNCHANGED <<now, keys, nextId, unanswered, ex, histMem, histQ>>

\* scheduler.py:69 and 77  post_alert for the fire, then for the testimonial.
SweepAlert ==
  /\ sw.pc = "alert"
  /\ posts' = [posts EXCEPT ![Head(sw.say)][sw.chan] = @ + 1]
  /\ Proceed([sw EXCEPT !.say = Tail(@)])
  /\ UNCHANGED <<now, keys, buffers, nextId, unanswered, ex, histMem, alerts, outcome>>

\* scheduler.py:69 and 77  post_alert fails: after a logged failure the sweep
\* goes on, an exception ends the sweep with the batch.
SweepAlertFails ==
  /\ sw.pc = "alert"
  /\ posts' = [posts EXCEPT ![Head(sw.say)][sw.chan] = @ + 1]
  /\ \E f \in PostFailures :
        IF f = "refused" THEN Proceed([sw EXCEPT !.say = Tail(@)])
        ELSE /\ sw' = IdleSweep
             /\ ing' = DropBatch(ing)
             /\ batch' = <<>>
  /\ UNCHANGED <<now, keys, buffers, nextId, unanswered, ex, histMem, alerts, outcome>>

\* A membership test that never finds the identity.
AlreadyTrackedNever(U, ts) == FALSE

\* question_tracker.py:48  question_ts not in self.unanswered_questions
AlreadyTracked(U, ts) == Tracked(U, ts)

\* question_tracker.py:43-45  question_ts = q.get("timestamp"); skipped when empty
HasIdentity(q) == q.ts # ""

\* An entry that is due at once.
NewEntryDueNow(q, c, nw) ==
  [ts |-> q.ts, text |-> q.text, chan |-> c, deadline |-> nw]

\* question_tracker.py:49-55  the entry of a new question
NewEntry(q, c, nw) ==
  [ts |-> q.ts, text |-> q.text, chan |-> c, deadline |-> nw + QuestionDeadline]

\* question_tracker.py:42-56  add_unanswered_questions, one candidate a step:
\* a candidate without identity is skipped, one already tracked is left
\* alone, a new one without "text" raises KeyError, which ends the sweep.
SweepRegister ==
  /\ sw.pc = "register"
  /\ LET q == sw.queue[sw.qi]
         last == sw.qi = Len(sw.queue)
         fresh == HasIdentity(q) /\ ~AlreadyTracked(unanswered, q.ts)
         raises == fresh /\ q.text = NoText
     IN /\ unanswered' = IF fresh /\ ~raises
                         THEN Append(unanswered, NewEntry(q, sw.chan, now))
                         ELSE unanswered
        /\ outcome' = IF fresh /\ ~raises
                      THEN [outcome EXCEPT ![q.ts] = {}] ELSE outcome
        /\ sw' = IF raises THEN IdleSweep
                 ELSE IF last THEN SweepNext(sw)
                 ELSE [sw EXCEPT !.qi = @ + 1]
        /\ ing' = LET I == IF fresh /\ ~raises THEN Touched(ing) ELSE ing
                  IN IF raises \/ last THEN DropBatch(I) ELSE I
        /\ batch' = IF raises \/ last THEN <<>> ELSE batch
  /\ UNCHANGED <<now, keys, buffers, nextId, ex, histMem, alerts, posts>>

\* --------------------------------------------- run_daily_summaries
\* scheduler.py:93  metadata_loader.metadata.keys(): the monitored channels
Monitored == <<"C1", "C2">>

\* api.py:27-51  get_channel_id_by_name: the id; None when the channel is not
\* found or on a SlackApiError, which it logs; any other exception of the
\* client passes through it.
LookupOutcomes == {"found", "none", "raised"}

\* scheduler.py:95  for channel_name in monitored_channels: the next one, or
\* the run is over.
DailyNext(d) ==
  IF d.i = Len(Monitored) THEN IdleDaily
  ELSE [d EXCEPT !.pc = "lookup", !.i = @ + 1]

\* scheduler.py:92-95  the run begins with the first monitored channel.
DailyStart ==
  /\ daily.pc = "idle"
  /\ daily' = [pc |-> "lookup", i |-> 1, requested |-> {}]
  /\ UNCHANGED <<now, memVars, nextId, ing, sw, unanswered, ex,
                 done, superseded, handed, asked, inbound, histQ>>

\* scheduler.py:96-97 and 102-103  the channel id is looked up, outside the
\* try of line 98: without an id the channel is skipped with a warning, an
\* exception ends the run.
DailyLookup ==
  /\ daily.pc = "lookup"
  /\ \E o \in LookupOutcomes :
        daily' = IF o = "found" THEN [daily EXCEPT !.pc = "summarize"]
                 ELSE IF o = "none" THEN DailyNext(daily)
                 ELSE IdleDaily
  /\ UNCHANGED <<now, memVars, nextId, ing, sw, unanswered, ex,
                 done, superseded, handed, asked, inbound, histQ>>

\* scheduler.py:98-101, summarizer.py:64-117  generate_daily_summary is
\* called: whatever fails in it (history, dialogue, model, post) is logged
\* there or by the except of line 100, and the run goes on.
DailySummarize ==
  /\ daily.pc = "summarize"
  /\ daily' = DailyNext([daily EXCEPT !.requested = @ \cup {Monitored[daily.i]}])
  /\ UNCHANGED <<now, memVars, nextId, ing, sw, unanswered, ex,
                 done, superseded, handed, asked, inbound, histQ>>

Daily ==
  \/ DailyStart
  \/ DailyLookup
  \/ DailySummarize

\* ------------------------------------------------------- behaviours
\* The append() part and the handle_new_message part of handle_message.
Appending(t) ==
  \/ Scan(t)
  \/ Lookup(t)
  \/ Store(t)

Notifying(t) ==
  \/ NotifyIter(t)
  \/ NotifyCheck(t)
  \/ NotifyPop(t)

Draining ==
  \/ SweepStart
  \/ SweepCheck
  \/ SweepDrain

Expiry ==
  \/ ExpiryStart
  \/ ExpiryRead
  \/ ExpiryPost
  \/ ExpiryPop

\* The whole system: two listener threads, both sweeps.
Next ==
  \/ Tick(MaxTime)
  \/ \E t \in IngestThreads :
        \/ BeginAppend(t, MaxMsgs, Channels, Keys, Texts, Roles)
        \/ Appending(t)
        \/ NotifyBegin(t)
        \/ Notifying(t)
  \/ Draining
  \/ SweepClassify(AllAnalyses)
  \/ SweepAnswer
  \/ SweepAlert
  \/ SweepRegister
  \/ Expiry

Spec == Init /\ [][Next]_vars

\* The buffer store under concurrency: two listener threads whose authors are
\* not internal, and the inactivity sweep with a classifier that finds no
\* question; the tracker stays empty.
NoQuestions == {Quiet(FALSE, <<>>)}

MemNext ==
  \/ Tick(MemMaxTime)
  \/ \E t \in IngestThreads :
        \/ BeginAppend(t, MemMaxMsgs, Channels, Keys, {"a"}, {"client"})
        \/ Appending(t)
        \/ NotifyBegin(t)
  \/ Draining
  \/ SweepClassify(NoQuestions)
  \/ SweepAnswer

MemSpec == Init /\ [][MemNext]_vars

\* The tracker under concurrency: one listener thread, both sweeps, and a
\* classifier that reports questions.
TrackAnalyses ==
  {Quiet(TRUE, qs) :
     qs \in {<<>>} \cup {<<q>> : q \in [ts : QIds, text : {"x"}]}}

TrackNext ==
  \/ Tick(MaxTime)
  \/ \E t \in {"i1"} :
        \/ BeginAppend(t, MaxMsgs, {"C1"}, {""}, {"a"}, {"internal", "client"})
        \/ Store(t)
        \/ NotifyBegin(t)
        \/ Notifying(t)
  \/ Draining
  \/ SweepClassify(TrackAnalyses)
  \/ SweepAnswer
  \/ SweepRegister
  \/ Expiry

TrackSpec == Init /\ [][TrackNext]_vars

\* The listener and both sweeps on one channel, the client writing "a" and
\* the team "b", with a classifier that finds a question only in a batch
\* that holds a message of the client.
ClientInBatch == \E i \in 1..Len(batch) : batch[i].text = "a"

LateAppend(t) ==
  \/ BeginAppend(t, MaxMsgs, {"C1"}, {""}, {"a"}, {"client"})
  \/ BeginAppend(t, MaxMsgs, {"C1"}, {""}, {"b"}, {"internal"})

LateClassify ==
  \/ ClientInBatch /\ SweepClassify(TrackAnalyses)
  \/ ~ClientInBatch /\ SweepClassify(NoQuestions)

\* handle_message runs to its end with no step of a sweep on the tracker in
\* between: the tracker's callers meet only between the listener's calls.
NotInHandle == ing["i1"].pc = "idle"

LateRegister == NotInHandle /\ SweepRegister

LateExpiry == NotInHandle /\ Expiry

LateNext ==
  \/ Tick(MaxTime)
  \/ LateAppend("i1")
  \/ Store("i1")
  \/ NotifyBegin("i1")
  \/ Notifying("i1")
  \/ Draining
  \/ LateClassify
  \/ SweepAnswer
  \/ LateRegister
  \/ LateExpiry

LateSpec == Init /\ [][LateNext]_vars

\* Calls that do not overlap: a thread is inside a call of MessageMemory or
\* of QuestionTracker from the call's first access to its last, and no other
\* thread takes a step meanwhile.
InAppend(t) == ing[t].pc \in {"scan", "lookup", "store"}

InNotify(t) == ing[t].pc \in {"n_iter", "n_mark", "n_pop"}

InCall(t) == InAppend(t) \/ InNotify(t)

InRegister == sw.pc = "register"

InExpiry == ex.pc # "idle"

NoneInCall == \A u \in IngestThreads : ~InCall(u)

OnlyIngest == ~InRegister /\ ~InExpiry

OnlySweep == NoneInCall /\ ~InExpiry

OnlyExpiry == NoneInCall /\ ~InRegister

\* The buffer store, calls not overlapping: one listener thread and the
\* inactivity sweep with a classifier that finds no question.
SeqMemNext ==
  \/ Tick(MemMaxTime)
  \/ \E t \in {"i1"} :
        \/ BeginAppend(t, SeqMaxMsgs, Channels, Keys, {"a"}, {"client"})
        \/ Appending(t)
        \/ NotifyBegin(t)
  \/ OnlySweep /\ SweepStart
  \/ OnlySweep /\ SweepCheck
  \/ OnlySweep /\ SweepDrain
  \/ OnlySweep /\ SweepClassify(NoQuestions)
  \/ OnlySweep /\ SweepAnswer

SeqMemSpec == Init /\ [][SeqMemNext]_vars

\* The tracker, calls not overlapping: one listener thread with keyless
\* messages, both sweeps, any answer of the classifier.
SeqTrackNext ==
  \/ Tick(MaxTime)
  \/ \E t \in {"i1"} :
        \/ OnlyIngest /\ BeginAppend(t, MaxMsgs, Channels, {""}, {"a"},
                                     {"internal", "client"})
        \/ OnlyIngest /\ Store(t)
        \/ OnlyIngest /\ NotifyBegin(t)
        \/ OnlyIngest /\ NotifyIter(t)
        \/ OnlyIngest /\ NotifyCheck(t)
        \/ OnlyIngest /\ NotifyPop(t)
  \/ OnlySweep /\ SweepStart
  \/ OnlySweep /\ SweepCheck
  \/ OnlySweep /\ SweepDrain
  \/ OnlySweep /\ SweepClassify(Analyses)
  \/ OnlySweep /\ SweepAnswer
  \/ OnlySweep /\ SweepRegister
  \/ OnlyExpiry /\ ExpiryStart
  \/ OnlyExpiry /\ ExpiryRead
  \/ OnlyExpiry /\ ExpiryPost
  \/ OnlyExpiry /\ ExpiryPop

SeqTrackSpec == Init /\ [][SeqTrackNext]_vars

\* One channel over a longer time, calls not overlapping: the client's
\* message and an edit of it (the same client_msg_id), both sweeps, and a
\* classifier that finds the question of timestamp "100" in every batch.
RepeatAnalyses == {Quiet(TRUE, <<Candidate("100", "x")>>)}

RepeatNext ==
  \/ Tick(RepeatMaxTime)
  \/ OnlyIngest /\ BeginAppend("i1", MaxMsgs, {"C1"}, {"k1"}, {"a"},
                                {"client"})
  \/ OnlyIngest /\ Appending("i1")
  \/ OnlyIngest /\ NotifyBegin("i1")
  \/ OnlySweep /\ Draining
  \/ OnlySweep /\ SweepClassify(RepeatAnalyses)
  \/ OnlySweep /\ SweepAnswer
  \/ OnlySweep /\ SweepRegister
  \/ OnlyExpiry /\ Expiry

RepeatSpec == Init /\ [][RepeatNext]_vars

\* The tracker called as question_tracker.py:115-131 calls it: questions
\* registered by the sweep, handle_new_message called on messages with or
\* without a channel_id and a thread_ts, calls not overlapping.
ThreadReplies == {NoThread, "100"}

DirectCall ==
  OnlyIngest /\ CallHandle("i1", Channels \cup {NoChannel}, ThreadReplies,
                           {"internal"})

SelfTestNext ==
  \/ Tick(MemMaxTime)
  \/ \E t \in {"i1"} :
        \/ OnlyIngest /\ BeginAppend(t, MaxMsgs, Channels, {""}, {"a"},
                                     {"client"})
        \/ OnlyIngest /\ Store(t)
        \/ OnlyIngest /\ NotifyBegin(t)
        \/ OnlyIngest /\ Notifying(t)
  \/ DirectCall
  \/ OnlySweep /\ Draining
  \/ OnlySweep /\ SweepClassify(TrackAnalyses)
  \/ OnlySweep /\ SweepAnswer
  \/ OnlySweep /\ SweepRegister

SelfTestSpec == Init /\ [][SelfTestNext]_vars

\* The inactivity sweep with its alerts: one listener thread with keyless
\* messages of a client, and a classifier that fails or, when it answers,
\* reports a fire: alone, with a testimonial and a question, or with a
\* question that has no text.
FlushAnalyses ==
  {Analysis(TRUE, "f", FALSE, "", FALSE, <<>>),
   Analysis(TRUE, "f", TRUE, "t", TRUE, <<Candidate("200", "x")>>),
   Analysis(TRUE, "f", FALSE, "", TRUE, <<Candidate("100", NoText)>>)}

FlushNext ==
  \/ Tick(MemMaxTime)
  \/ \E t \in {"i1"} :
        \/ BeginAppend(t, MemMaxMsgs, Channels, {""}, {"a"}, {"client"})
        \/ Store(t)
        \/ NotifyBegin(t)
  \/ Draining
  \/ SweepClassify(FlushAnalyses)
  \/ SweepAnswer
  \/ SweepAlert
  \/ SweepRegister

FlushSpec == Init /\ [][FlushNext]_vars

\* The sweep's dispatch on one channel: one listener thread with keyless
\* messages of a client, and a classifier that may give every answer: each
\* flag set or not, each text empty or not, every list of candidates.
DispatchNext ==
  \/ Tick(MemMaxTime)
  \/ \E t \in {"i1"} :
        \/ BeginAppend(t, MemMaxMsgs, {"C1"}, {""}, {"a"}, {"client"})
        \/ Store(t)
        \/ NotifyBegin(t)
  \/ Draining
  \/ SweepClassify(AllAnalyses)
  \/ SweepAnswer
  \/ SweepAlert
  \/ SweepRegister

DispatchSpec == Init /\ [][DispatchNext]_vars

\* The buffer store and the tracker with two channels: one listener thread
\* whose messages have a client_msg_id or none and come from clients, and
\* the inactivity sweep with a classifier that reports questions, side by
\* side.
FrameNext ==
  \/ Tick(MemMaxTime)
  \/ \E t \in {"i1"} :
        \/ BeginAppend(t, SeqMaxMsgs, Channels, Keys, {"a"}, {"client"})
        \/ Appending(t)
        \/ NotifyBegin(t)
  \/ Draining
  \/ SweepClassify(TrackAnalyses)
  \/ SweepAnswer
  \/ SweepRegister

FrameSpec == Init /\ [][FrameNext]_vars

\* The tracker with two channels, everything side by side: one listener
\* thread with keyless messages of clients and of the team, both sweeps, and
\* a classifier that reports the question of timestamp "100" for a batch of
\* either channel.
CrossNext ==
  \/ Tick(MaxTime)
  \/ \E t \in {"i1"} :
        \/ BeginAppend(t, SeqMaxMsgs, Channels, {""}, {"a"},
                       {"internal", "client"})
        \/ Store(t)
        \/ NotifyBegin(t)
        \/ Notifying(t)
  \/ Draining
  \/ SweepClassify(RepeatAnalyses)
  \/ SweepAnswer
  \/ SweepRegister
  \/ Expiry

CrossSpec == Init /\ [][CrossNext]_vars

\* The tracker when nobody answers: one listener thread with keyless messages
\* of clients in one channel, both sweeps, and a classifier that reports
\* one question or two.  The clock advances, and the interval job of
\* scheduler.py:119-123 runs check_for_expired_questions again and again: a
\* run that can take a step takes it.
LiveAnalyses ==
  {Quiet(TRUE, <<Candidate("100", "x")>>),
   Quiet(TRUE, <<Candidate("100", "y"), Candidate("200", "x")>>)}

LiveNext ==
  \/ Tick(LiveMaxTime)
  \/ \E t \in {"i1"} :
        \/ BeginAppend(t, LiveMaxMsgs, {"C1"}, {""}, {"a"}, {"client"})
        \/ Store(t)
        \/ NotifyBegin(t)
  \/ Draining
  \/ SweepClassify(LiveAnalyses)
  \/ SweepAnswer
  \/ SweepRegister
  \/ Expiry

LiveSpec ==
  Init /\ [][LiveNext]_vars /\ WF_vars(Tick(LiveMaxTime)) /\ WF_vars(Expiry)

\* The buffer store when the channel falls quiet: one listener thread with
\* messages in one channel, accepted early enough for the clock to
\* pass the inactivity threshold afterwards, and the inactivity sweep.  The
\* clock advances, the listener thread runs on, and the interval job of
\* scheduler.py:113-117 runs analyze_inactive_channels again and again.
Sweeping ==
  \/ Draining
  \/ SweepClassify(NoQuestions)
  \/ SweepAnswer

Listening(t) ==
  \/ Appending(t)
  \/ NotifyBegin(t)

EarlyAppend(t) ==
  /\ now + InactivityThreshold < MemMaxTime
  /\ BeginAppend(t, MemMaxMsgs, {"C1"}, Keys, {"a"}, {"client"})

QuietNext ==
  \/ Tick(MemMaxTime)
  \/ \E t \in {"i1"} :
        \/ EarlyAppend(t)
        \/ Listening(t)
  \/ Sweeping

QuietSpec ==
  /\ Init /\ [][QuietNext]_vars
  /\ WF_vars(Tick(MemMaxTime))
  /\ WF_vars(Listening("i1"))
  /\ WF_vars(Sweeping)

\* The buffer store with a caller of get_last_message_time: one listener
\* thread with keyless messages in channel C1, the inactivity sweep, and
\* calls of get_last_message_time for either channel between the sweeps.
AskNext ==
  \/ Tick(MemMaxTime)
  \/ \E t \in {"i1"} :
        \/ BeginAppend(t, MemMaxMsgs, {"C1"}, {""}, {"a"}, {"client"})
        \/ Store(t)
        \/ NotifyBegin(t)
  \/ Sweeping
  \/ \E c \in Channels : AskLast(c)

AskSpec == Init /\ [][AskNext]_vars

\* handle_message from its first line: one listener thread that is given
\* good and defective events of channel C1, from internal authors and from
\* clients, and the inactivity sweep with a classifier that reports
\* questions.
AcceptedAppend(t) ==
  /\ Accepted(t)
  /\ BeginAppend(t, MaxMsgs, {"C1"}, {""}, {"a"}, {"internal", "client"})

GatewayNext ==
  \/ Tick(MemMaxTime)
  \/ \E t \in {"i1"} :
        \/ Deliver(t, MaxMsgs)
        \/ AcceptedAppend(t)
        \/ Store(t)
        \/ NotifyBegin(t)
        \/ Notifying(t)
  \/ Draining
  \/ SweepClassify(TrackAnalyses)
  \/ SweepAnswer
  \/ SweepRegister

GatewaySpec == Init /\ [][GatewayNext]_vars

\* Both sweeps with a poster that may fail, calls not overlapping: one
\* listener thread with keyless messages of clients, and a classifier that
\* reports a fire and a testimonial, with a question or without.
PosterAnalyses ==
  {Analysis(TRUE, "f", TRUE, "t", FALSE, <<>>),
   Analysis(TRUE, "f", FALSE, "", TRUE, <<Candidate("100", "x")>>)}

PosterNext ==
  \/ Tick(MaxTime)
  \/ \E t \in {"i1"} :
        \/ OnlyIngest /\ BeginAppend(t, MemMaxMsgs, Channels, {""}, {"a"}, {"client"})
        \/ OnlyIngest /\ Store(t)
        \/ OnlyIngest /\ NotifyBegin(t)
  \/ Draining
  \/ SweepClassify(PosterAnalyses)
  \/ SweepAnswer
  \/ SweepAlert
  \/ SweepAlertFails
  \/ OnlySweep /\ SweepRegister
  \/ OnlyExpiry /\ Expiry
  \/ OnlyExpiry /\ ExpiryPostFails

PosterSpec == Init /\ [][PosterNext]_vars

\* The three periodic jobs and the listener with everything that can fail:
\* events that are turned away, a classifier that fails or reports a
\* question without text, a poster and a channel lookup that fail.  The
\* scheduler starts each job again after every run, whatever its outcome
\* (scheduler.py:108-131), and the gateway goes on delivering; the clock
\* advances.
FaultyAnalyses ==
  {Analysis(TRUE, "f", FALSE, "", TRUE, <<Candidate("100", "x")>>),
   Quiet(TRUE, <<Candidate("100", NoText)>>)}

FaultySweep ==
  \/ Draining
  \/ SweepClassify(FaultyAnalyses)
  \/ SweepAnswer
  \/ SweepAlert
  \/ SweepAlertFails
  \/ SweepRegister

FaultyExpiry ==
  \/ Expiry
  \/ ExpiryPostFails

FaultyAppend(t) ==
  /\ Accepted(t)
  /\ BeginAppend(t, LiveMaxMsgs, {"C1"}, {""}, {"a"}, {"client"})

FaultyListener(t) ==
  \/ Deliver(t, LiveMaxMsgs)
  \/ FaultyAppend(t)
  \/ Store(t)
  \/ NotifyBegin(t)

FaultyNext ==
  \/ Tick(MaxTime)
  \/ FaultyListener("i1")
  \/ FaultySweep
  \/ FaultyExpiry
  \/ Daily

FaultySpec ==
  /\ Init /\ [][FaultyNext]_vars
  /\ WF_vars(Tick(MaxTime))
  /\ WF_vars(FaultyListener("i1"))
  /\ WF_vars(FaultySweep)
  /\ WF_vars(FaultyExpiry)
  /\ WF_vars(Daily)

\* ------------------------------------------------------- properties
\* C1.  Every channel's buffer holds at most one message for any non-empty
\* client key, also when several threads append a message with the same key
\* to the same channel at once.
C1_OneMessagePerKey ==
  \A c \in Channels :
    \A i, j \in 1..Len(buffers[c]) :
      (i # j /\ buffers[c][i].key # "") => buffers[c][i].key # buffers[c][j].key

\* Where a message whose append() has ended may be: in a channel's buffer, in
\* the batch the sweep is about to hand to the classifier, or handed already.
Kept(id) ==
  \/ id \in handed
  \/ \E c \in Channels : id \in Ids(buffers[c])
  \/ sw.pc = "classify" /\ id \in Ids(batch)

\* C2.  A message whose append has ended, and that no later message with its
\* key has replaced, is never lost, also when the append ran while the sweep
\* drained the channel: it is in the batch handed to the classifier or in the
\* channel's buffer.
C2_AppendNeverLost == \A id \in done \ superseded : Kept(id)

\* C3.  No registration of a question gets both outcomes: an expiry alert and
\* the removal as answered.
C3_AlertOrAnswered == \A q \in QIds : outcome[q] # {"alerted", "answered"}

\* The step that ends the append() of thread t.
StoreStep(t) == ing[t].pc = "store" /\ ing'[t].pc # "store"

\* The key of thread t's message is the key of some message of list L.
KeyIn(t, L) ==
  /\ ing[t].msg.key # ""
  /\ \E i \in 1..Len(L) : L[i].key = ing[t].msg.key

C4_DrainStep ==
  (sw.pc = "drain" /\ sw'.pc # "drain") =>
     /\ batch' = buffers[sw.chan]
     /\ buffers' = [buffers EXCEPT ![sw.chan] = <<>>]

C4_AppendAfterDrain ==
  \A t \in IngestThreads :
    (/\ StoreStep(t)
     /\ sw.pc = "classify"
     /\ ing[t].chan = sw.chan
     /\ buffers[sw.chan] = <<>>)
    => /\ buffers' = [buffers EXCEPT ![sw.chan] = <<ing[t].msg>>]
       /\ batch' = batch
       /\ ing[t].msg.id \notin Ids(batch')

\* C4.  get_and_clear_buffer(C) returns exactly C's buffer, in order, and
\* leaves C empty; a message appended to C after the drain has returned is
\* then the only message of C's buffer and is not in the returned sequence.
C4_DrainReturnsAndEmpties == [][C4_DrainStep /\ C4_AppendAfterDrain]_vars

\* A batch of two has been drained and a message appended since is alone in
\* the channel's buffer.
C4_Witness ==
  /\ sw.pc = "classify"
  /\ Len(batch) = 2
  /\ Len(buffers[sw.chan]) = 1
  /\ buffers[sw.chan][1].id \notin Ids(batch)
  /\ buffers[sw.chan][1].id \in done

C5_ReplaceStep ==
  \A t \in IngestThreads :
    (StoreStep(t) /\ KeyIn(t, buffers[ing[t].chan]))
    => LET c == ing[t].chan
           L == buffers[c]
       IN \E i \in 1..Len(L) :
             /\ L[i].key = ing[t].msg.key
             /\ buffers' = [buffers EXCEPT ![c] = [L EXCEPT ![i] = ing[t].msg]]

\* C5.  An append whose non-empty key is the key of a buffered message of the
\* channel replaces that message at its index: the length of the buffer and
\* every other entry stay as they were.
C5_ReplaceInPlace == [][C5_ReplaceStep]_vars

\* Message 3 has replaced message 1 at the head of a buffer, ahead of the
\* message that arrived between them.
C5_Witness ==
  \E c \in Channels :
    /\ Len(buffers[c]) = 2
    /\ buffers[c][1].id = 3 /\ buffers[c][1].key # ""
    /\ buffers[c][2].id = 2
    /\ 1 \in superseded
    /\ ing["i1"].pc # "store"

C6_AppendStep ==
  \A t \in IngestThreads :
    (StoreStep(t) /\ ~KeyIn(t, buffers[ing[t].chan]))
    => LET c == ing[t].chan
       IN buffers' = [buffers EXCEPT ![c] = Append(buffers[c], ing[t].msg)]

\* C6.  An append without a key, or with a key that no buffered message of
\* the channel has, adds exactly the message at the end of the buffer and
\* leaves the earlier entries and their order alone; two keyless messages
\* with the same content are both kept, in arrival order.
C6_AppendAtEnd == [][C6_AppendStep]_vars

\* Two keyless messages with the same text sit in one buffer, in arrival order.
C6_Witness ==
  \E c \in Channels :
    /\ Len(buffers[c]) = 2
    /\ buffers[c][1].key = "" /\ buffers[c][2].key = ""
    /\ buffers[c][1].text = buffers[c][2].text
    /\ buffers[c][1].id < buffers[c][2].id
    /\ buffers[c][2].id \in done

\* No two entries of the tracker have the same identity.
OneEntryPerIdentity ==
  \A i, j \in 1..Len(unanswered) :
    i # j => unanswered[i].ts # unanswered[j].ts

C7_RegisterStep ==
  (/\ sw.pc = "register"
   /\ sw' # sw
   /\ sw.queue[sw.qi].ts # ""
   /\ Tracked(unanswered, sw.queue[sw.qi].ts))
  => unanswered' = unanswered

\* C7.  Registering a candidate whose identity is tracked already leaves the
\* tracker as it is: one entry for the identity, with the text, channel and
\* deadline it had, whatever the candidate's text and channel.
C7_RegisterIdempotent == [][C7_RegisterStep /\ OneEntryPerIdentity']_vars

\* add_unanswered_questions has gone past a candidate whose identity is
\* tracked with another text and for another channel.
C7_Witness ==
  /\ sw.pc = "register"
  /\ sw.qi = 2
  /\ sw.queue[1].ts # ""
  /\ Tracked(unanswered, sw.queue[1].ts)
  /\ Entry(unanswered, sw.queue[1].ts).text # sw.queue[1].text
  /\ Entry(unanswered, sw.queue[1].ts).chan # sw.chan

C8_NotifyEnd ==
  \A t \in IngestThreads :
    (/\ ing[t].pc \in {"notify", "n_iter", "n_mark", "n_pop"}
     /\ ing[t].role = "internal"
     /\ ing'[t].pc = "idle")
    => \A i \in 1..Len(unanswered') : unanswered'[i].chan # ing[t].chan

\* C8.  When handle_new_message returns for a message of an internal author
\* in channel C, the tracker holds no question of channel C, however many
\* it held.
C8_InternalClearsChannel == [][C8_NotifyEnd]_vars

\* Both questions were pending and have been removed as answered.
C8_Witness ==
  /\ unanswered = <<>>
  /\ \A q \in QIds : outcome[q] = {"answered"}
  /\ \A t \in IngestThreads : ing[t].pc = "idle"

\* Question q was in the tracker when the expiry run began, with a deadline
\* before the run's now.
DueAtStart(q) ==
  \E i \in 1..Len(ex.seen) : ex.seen[i].ts = q /\ ex.seen[i].deadline < ex.now

C9_RunEnd ==
  (ex.pc # "idle" /\ ex'.pc = "idle") =>
     /\ unanswered' = SelectSeq(ex.seen, LAMBDA e : ~DueAtStart(e.ts))
     /\ alerts' = [q \in QIds |->
                     IF DueAtStart(q) THEN ex.base[q] + 1 ELSE ex.base[q]]
     /\ \A q \in QIds : alerts'[q] > ex.base[q] => ~Tracked(unanswered', q)

C10_CheckStep ==
  (sw.pc = "check" /\ sw' # sw) =>
     LET c == sw.keys[sw.ki]
         L == buffers[c]
     IN (sw'.pc = "drain" /\ sw'.chan = c)
        <=> (L # <<>> /\ sw.now - L[Len(L)].recv > InactivityThreshold)

C10_DrainAfterCheck == (sw.pc # "drain" /\ sw'.pc = "drain") => sw.pc = "check"

\* C10.  The sweep goes on to drain a channel exactly when its now minus the
\* channel's last activity is greater than the threshold; at the threshold
\* the channel stays buffered.
C10_StrictThreshold == [][C10_CheckStep /\ C10_DrainAfterCheck]_vars

\* One run has left a channel whose last activity was the threshold old and
\* is about to drain one whose last activity is older.
C10_Witness ==
  /\ sw.pc = "drain"
  /\ \E k \in sw.kept : sw.now - k.last = InactivityThreshold
  /\ buffers[sw.chan] # <<>>
  /\ sw.now - LastTime(buffers[sw.chan]) = InactivityThreshold + 1

C11_ReadStep ==
  (ex.pc = "read" /\ ex' # ex) =>
     LET ts == ex.keys[ex.ki]
     IN /\ ex'.pc = "post"
             <=> (Tracked(unanswered, ts)
                  /\ Entry(unanswered, ts).deadline < ex.now)
        /\ unanswered' = unanswered
        /\ alerts' = alerts

C11_AlertStep ==
  (alerts' # alerts) =>
     /\ ex.pc = "post"
     /\ alerts' = [alerts EXCEPT ![ex.keys[ex.ki]] = @ + 1]

\* C11.  The expiry run goes on to alert for a question exactly when its now
\* is later than the question's deadline; reading a question whose deadline
\* is its now leaves the question tracked and posts nothing, and no alert is
\* posted but after such a test.
C11_StrictDeadline == [][C11_ReadStep /\ C11_AlertStep]_vars

\* The run has read a question whose deadline is its now and has gone on to
\* the next one: the question is tracked as before and has no new alert.
C11_Witness ==
  /\ ex.pc = "read"
  /\ ex.ki = 2
  /\ ex.seen[1].deadline = ex.now
  /\ Tracked(unanswered, ex.seen[1].ts)
  /\ Entry(unanswered, ex.seen[1].ts) = ex.seen[1]
  /\ alerts[ex.seen[1].ts] = ex.base[ex.seen[1].ts]

C12_FailStep ==
  (sw.pc = "answer" /\ ~sw.analysis.parsed /\ sw' # sw) =>
     /\ sw'.pc \in {"check", "idle"}
     /\ posts' = posts
     /\ alerts' = alerts
     /\ unanswered' = unanswered
     /\ buffers' = buffers

C12_OnlyAppendsFill ==
  \A c \in Channels :
    (buffers'[c] # buffers[c] /\ buffers'[c] # <<>>)
    => \E t \in IngestThreads : StoreStep(t) /\ ing[t].chan = c

\* C12.  When the classifier fails on a drained batch, or answers nothing
\* that parses, the sweep goes on to the next channel: it posts no alert and
\* registers no question for the batch and puts no message back; a buffer
\* gets messages from appends only.
C12_FailedBatchDropped == [][C12_FailStep /\ C12_OnlyAppendsFill]_vars

\* The sweep has gone on to its second channel after the batch of the first
\* was classified: nothing was posted or registered, which in FlushSpec only
\* a failure of the classifier brings about, and the first channel is empty.
C12_Witness ==
  /\ sw.pc = "check"
  /\ sw.ki = 2
  /\ handed # {}
  /\ \A k \in PostKinds, c \in Channels : posts[k][c] = 0
  /\ unanswered = <<>>
  /\ buffers[sw.keys[1]] = <<>>

\* C13.  A failure while the sweep deals with one channel does not end the
\* run: when a run ends, no channel of its copy of the keys that it has not
\* come to is still buffered and inactive.
C13_FailureIsolated ==
  [][(sw.pc # "idle" /\ sw'.pc = "idle") =>
       \A j \in (sw.ki + 1)..Len(sw.keys) :
          ~(/\ buffers[sw.keys[j]] # <<>>
            /\ sw.now - LastTime(buffers[sw.keys[j]]) > InactivityThreshold)]_vars

C14_RunGoesOn ==
  (ex.pc # "idle" /\ ex'.pc = "idle") =>
     \A j \in (ex.ki + 1)..Len(ex.keys) :
        ~(/\ Tracked(unanswered', ex.keys[j])
          /\ Entry(unanswered', ex.keys[j]).deadline < ex.now)

C14_NoAlertForGone ==
  (alerts' # alerts) => Tracked(unanswered, ex.keys[ex.ki])

\* C14.  A question that an internal message removes while the expiry run is
\* under way is simply gone for the run: the run posts no alert for it and
\* does not end before it has dealt with every other question that is due.
C14_GoneIsSkipped == [][C14_RunGoesOn /\ C14_NoAlertForGone]_vars

\* Thread t is in handle_new_message with a message of an internal author in
\* the channel of question q, received after q was registered and not after
\* q's deadline.
AnsweredInTime(t, q) ==
  /\ ing[t].pc \in {"notify", "n_iter", "n_mark", "n_pop"}
  /\ ing[t].role = "internal"
  /\ ing[t].chan = q.chan
  /\ q.deadline - QuestionDeadline < ing[t].msg.recv
  /\ ing[t].msg.recv <= q.deadline

\* C15.  No expiry alert is posted for a question while the tracker is being
\* told of an internal message of its channel that was ingested when the
\* question was tracked and its deadline had not passed.
C15_AnsweredNeverAlerted ==
  [][(alerts' # alerts) =>
       \A i \in 1..Len(ex.seen) :
          ex.seen[i].ts = ex.keys[ex.ki]
          => \A t \in IngestThreads : ~AnsweredInTime(t, ex.seen[i])]_vars

\* C16.  A question that is tracked with no alert dispatched for it yet, in a
\* run where no internal message is ever ingested, and whose deadline the
\* clock can pass, leads to a state
\* where it is no longer tracked and exactly one more expiry alert has been
\* dispatched for it; and every expiry alert is built from the entry of the
\* question as it was registered: its channel and its text.
C16_Pending(q, n) ==
  /\ Tracked(unanswered, q)
  /\ "alerted" \notin outcome[q]
  /\ alerts[q] = n
  /\ Entry(unanswered, q).deadline < LiveMaxTime

C16_Expired(q, n) == ~Tracked(unanswered, q) /\ alerts[q] = n + 1

C16_AlertCarries ==
  (alerts' # alerts) =>
     /\ ex.q.ts = ex.keys[ex.ki]
     /\ Tracked(ex.seen, ex.q.ts)
     /\ ex.q = Entry(ex.seen, ex.q.ts)
     /\ ex.q.text \in {c.text : c \in Candidates} \ {NoText}
     /\ ex.q.chan \in Channels

C17_EventuallyClassified ==
  \A id \in 1..(MemMaxMsgs + 1) : (id \in done \ superseded) ~> (id \in handed)

\* C18.  After an append that replaces a buffered message with its key,
\* get_last_message_time of the channel is the time the replacement was
\* received, wherever the replaced message sits.
C18_ReplaceStep ==
  \A t \in IngestThreads :
    (StoreStep(t) /\ KeyIn(t, buffers[ing[t].chan]))
    => /\ HasLast(buffers'[ing[t].chan])
       /\ LastTime(buffers'[ing[t].chan]) = ing[t].msg.recv

C18_ReplaceRefreshesLast == [][C18_ReplaceStep]_vars

\* C19.  A call of get_last_message_time for channel c returns None exactly
\* when c has no buffered message, and else the time the last message of c
\* was received; the call leaves every buffer, and the batch the sweep holds,
\* as they were, so that a later drain returns what it would have returned.
C19_AskStep ==
  (asked'.n # asked.n) =>
     /\ (asked'.res = NoTime) <=> (buffers[asked'.chan] = <<>>)
     /\ asked'.res.some =>
           asked'.res.at = buffers[asked'.chan][Len(buffers[asked'.chan])].recv
     /\ buffers' = buffers
     /\ batch' = batch

C19_NoneIffEmpty == [][C19_AskStep]_vars

\* The second call was for C1 after its messages had been drained and handed
\* to the classifier, the first for C2, which no message ever reached: both
\* returned None, and the buffers are empty.
C19_Witness ==
  /\ asked = [n |-> 2, chan |-> "C1", res |-> NoTime]
  /\ InSeq("C1", keys) /\ InSeq("C2", keys)
  /\ buffers = [c \in Channels |-> <<>>]
  /\ handed = {1, 2}
  /\ sw.pc = "idle"
  /\ ing["i1"].pc = "idle"

\* C20.  The batch the sweep took with a drain changes only by a step of the
\* sweep: no append of a listener thread adds a message to it or replaces
\* one in it.
C20_BatchIsFixed == [][(batch' # batch) => (sw' # sw)]_vars

\* C21.  A question enters the tracker with the deadline "time of the
\* registration plus the deadline duration", and its entry stays as it is
\* for as long as the question is tracked.
C21_Step ==
  \A q \in QIds :
    /\ (Tracked(unanswered', q) /\ ~Tracked(unanswered, q))
         => Entry(unanswered', q).deadline = now + QuestionDeadline
    /\ (Tracked(unanswered', q) /\ Tracked(unanswered, q))
         => Entry(unanswered', q) = Entry(unanswered, q)

C21_DeadlineFixed == [][C21_Step]_vars

\* The sweep has passed over candidate "100" of a later batch while "100" was
\* tracked with a deadline set before that sweep began.
C21_Witness ==
  /\ sw.pc = "register" /\ sw.qi = 2
  /\ sw.queue[1].ts = "100"
  /\ Tracked(unanswered, "100")
  /\ Entry(unanswered, "100").deadline < sw.now + QuestionDeadline

\* An event without author or text, or whose channel or author could not be
\* resolved.
C22_Defective(e) == ~e.user \/ ~e.text \/ e.info # "ok" \/ ~e.email

\* C22.  handle_message, given an event without author or text or with an
\* unresolved channel or author, changes neither the buffer store nor the
\* tracker, and no append and no handle_new_message is begun for it.
C22_DeliverStep ==
  \A t \in IngestThreads :
    (inbound'[t] # inbound[t] /\ C22_Defective(inbound'[t].ev))
    => /\ UNCHANGED <<keys, buffers, batch, unanswered>>
       /\ ing'[t].pc = "idle"
       /\ ~Accepted(t)'

C22_BeginStep ==
  \A t \in IngestThreads :
    (ing[t].pc = "idle" /\ ing'[t].pc # "idle")
    => inbound[t].id = nextId /\ ~C22_Defective(inbound[t].ev)

C22_DefectiveIsIgnored == [][C22_DeliverStep /\ C22_BeginStep]_vars

\* An event whose author could not be resolved has been turned away while a
\* question of the channel is tracked and a message is buffered.
C22_Witness ==
  /\ inbound["i1"].id = 2 /\ nextId = 3
  /\ ~inbound["i1"].ev.email
  /\ ing["i1"].pc = "idle"
  /\ Len(unanswered) = 1 /\ unanswered[1].chan = "C1"

\* C23.  post_alert is called at most once for a tracked question, whether
\* the call succeeds or fails, and after the call the run removes the
\* question; after a call for a fire or a testimonial the sweep goes on with
\* what is left to do for the batch, and does not call again for the same.
C23_ExpiryPostStep ==
  \A q \in QIds :
    (alerts'[q] # alerts[q])
    => /\ outcome[q] \cap {"alerted", "failed"} = {}
       /\ ex'.pc = "pop" /\ ex'.keys[ex'.ki] = q

C23_SweepPostStep ==
  (posts' # posts)
  => IF Len(sw.say) > 1 THEN sw'.pc = "alert" /\ sw'.say = Tail(sw.say)
     ELSE IF sw.queue # <<>> THEN sw'.pc = "register"
     ELSE sw' = SweepNext(sw)

C23_FailedPostNotRetried == [][C23_ExpiryPostStep /\ C23_SweepPostStep]_vars

\* C24.  No failure stops the system: whatever has failed, the inactivity
\* sweep, the expiry sweep, the daily summaries and the listener each come
\* to the end of what they are doing again and again, and a job that is at
\* rest can be started: the next run, and the next message, take place.
C24_AtRestAgain ==
  /\ []<>(sw.pc = "idle")
  /\ []<>(ex.pc = "idle")
  /\ []<>(daily.pc = "idle")
  /\ []<>(ing["i1"].pc = "idle")

C24_CanStart ==
  /\ (sw.pc = "idle" /\ keys # <<>>) => ENABLED SweepStart
  /\ (ex.pc = "idle" /\ unanswered # <<>>) => ENABLED ExpiryStart
  /\ daily.pc = "idle" => ENABLED DailyStart
  /\ (ing["i1"].pc = "idle" /\ nextId <= LiveMaxMsgs /\ ~Accepted("i1"))
       => ENABLED Deliver("i1", LiveMaxMsgs)

C25_RunEnd ==
  (daily.pc # "idle" /\ daily'.pc = "idle") => daily.i = Len(Monitored)

C25_EveryChannelVisited == [][C25_RunEnd]_vars

\* C26.  When handle_new_message returns for a message of an internal author
\* whose thread_ts is the timestamp of a tracked question, that question is
\* no longer tracked.
C26_CallEnd ==
  LET me == ing["i1"]
  IN (/\ me.pc \in {"notify", "n_iter", "n_mark", "n_pop"}
      /\ ing'["i1"].pc = "idle"
      /\ Answers(me.role)
      /\ me.thread # NoThread)
       => ~Tracked(unanswered', me.thread)

C26_ThreadReplyAnswers == [][C26_CallEnd]_vars

\* C27.  An expired question is removed from the tracker before post_alert is
\* called for it: at every call of post_alert for a question, the question
\* is tracked no longer.
C27_PostStep ==
  \A q \in QIds : (alerts'[q] # alerts[q]) => ~Tracked(unanswered, q)

C27_RemovedBeforePost == [][C27_PostStep]_vars

\* The buffer of the question's channel holds a message of the team that was
\* received no later than the question was registered: a message that has
\* not been drained since, so that it came in after the drain of the batch
\* the question is of.
C28_LateReply(q) ==
  \E i \in 1..Len(buffers[q.chan]) :
     /\ buffers[q.chan][i].text = "b"
     /\ buffers[q.chan][i].recv <= q.deadline - QuestionDeadline

\* C28.  An internal message ingested in a channel between the drain of a
\* batch of the channel and the registration of the batch's questions counts
\* as their answer: post_alert is never called for a question with such a
\* message.
C28_PostStep == (alerts' # alerts) => ~C28_LateReply(ex.q)

C28_LateAnswerCounts == [][C28_PostStep]_vars

\* C29.  A channel is drained only when it is inactive at the drain: the
\* newest message of the list that get_and_clear_buffer hands to the sweep
\* is older than the threshold at the sweep's now.
C29_DrainStep ==
  (sw.pc = "drain" /\ sw'.pc # "drain" /\ batch' # <<>>)
    => Inactive(sw.now, LastTime(batch'))

C29_DrainsOnlyInactive == [][C29_DrainStep]_vars

\* C30.  Over a whole execution post_alert is called at most once for the
\* expiry of a question identity.
C30_AtMostOneAlert == \A q \in QIds : alerts[q] <= 1

\* C31.  A call of the classifier is for a batch that is not empty and that
\* holds no message a classifier call was made with before.
C31_ClassifyStep ==
  (sw.pc = "classify" /\ sw'.pc # "classify")
    => /\ batch # <<>>
       /\ Ids(batch) \cap handed = {}

C31_HandedOnce == [][C31_ClassifyStep]_vars

\* The classifier has been called with a second batch, a message of an
\* earlier batch having been handed to it before.
C31_Witness ==
  /\ sw.pc = "answer"
  /\ batch # <<>>
  /\ Ids(batch) \subseteq handed
  /\ handed \ Ids(batch) # {}

\* What the sweep takes up from an answer that parsed: the fire alert exactly
\* when is_fire is set and fire_text is not empty, the testimonial alert
\* exactly when is_testimonial is set and testimonial_text is not empty,
\* each at most once, and the candidates exactly when is_question is set and
\* the list is not empty.
C32_AnswerStep ==
  (sw.pc = "answer" /\ sw'.pc # "answer" /\ sw.analysis.parsed)
    => LET a == sw.analysis
           fire == a.is_fire /\ a.fire_text # ""
           testimonial == a.is_testimonial /\ a.testimonial_text # ""
           questions == a.is_question /\ a.questions # <<>>
       IN /\ (sw'.pc = "alert") = (fire \/ testimonial)
          /\ InSeq("fire", sw'.say) = fire
          /\ InSeq("testimonial", sw'.say) = testimonial
          /\ Len(sw'.say) = (IF fire THEN 1 ELSE 0)
                              + (IF testimonial THEN 1 ELSE 0)
          /\ (sw'.queue # <<>>) = questions
          /\ questions => sw'.queue = a.questions
          /\ (sw'.pc = "register") = (questions /\ ~fire /\ ~testimonial)

\* post_alert is called for the alerts that were taken up, once each, and
\* add_unanswered_questions follows when there are candidates.
C32_AlertStep ==
  (posts' # posts)
    => /\ sw.pc = "alert"
       /\ posts' = [posts EXCEPT ![Head(sw.say)][sw.chan] = @ + 1]
       /\ ~InSeq(Head(sw.say), Tail(sw.say))
       /\ IF Len(sw.say) > 1 THEN sw'.pc = "alert" /\ sw'.say = Tail(sw.say)
          ELSE (sw'.pc = "register") = (sw.queue # <<>>)

\* The tracker grows only by a candidate at hand that has an identity.
C32_GrowStep ==
  (Len(unanswered') > Len(unanswered))
    => /\ sw.pc = "register"
       /\ sw.queue[sw.qi].ts # ""
       /\ unanswered'[Len(unanswered')].ts = sw.queue[sw.qi].ts

\* A candidate with an identity that is not tracked, and with a text, is
\* tracked once add_unanswered_questions has gone past it.
C32_RegisterStep ==
  (/\ sw.pc = "register"
   /\ sw' # sw
   /\ sw.queue[sw.qi].ts # ""
   /\ sw.queue[sw.qi].text # NoText)
  => Tracked(unanswered', sw.queue[sw.qi].ts)

C33_AppendStep(t) ==
  /\ ing[t].pc \in {"idle", "scan", "lookup", "store"}
  /\ ing'[t].pc \in {"scan", "lookup", "store", "notify", "idle"}
  /\ ing'[t].pc # ing[t].pc \/ ing'[t].idx # ing[t].idx

\* The channel of the append thread t is in.
C33_AppendChannel(t) ==
  IF ing[t].pc = "idle" THEN ing'[t].chan ELSE ing[t].chan

\* The sweep takes the step of get_and_clear_buffer.
C33_DrainStep == sw.pc = "drain" /\ sw'.pc # "drain"

\* Every channel but c has its buffer, and so its last activity, and its key
\* in the dict or not, as before, and the tracker is as before.
C33_OthersKept(c) ==
  /\ \A d \in Channels \ {c} :
        /\ buffers'[d] = buffers[d]
        /\ InSeq(d, keys') = InSeq(d, keys)
  /\ unanswered' = unanswered

\* C33.  A step of append(C, m) and the step of get_and_clear_buffer(C) leave
\* the buffer, the last activity and the key of every other channel as they
\* were, and leave the tracker as it was.
C33_FrameStep ==
  /\ \A t \in IngestThreads :
        C33_AppendStep(t) => C33_OthersKept(C33_AppendChannel(t))
  /\ C33_DrainStep => C33_OthersKept(sw.chan)

C33_BufferFrame == [][C33_FrameStep]_vars

\* A message has been appended to a channel while the other channel has a
\* message buffered and a question is tracked.
C33_Witness ==
  /\ ing["i1"].pc = "notify"
  /\ \E d \in Channels \ {ing["i1"].chan} : buffers[d] # <<>>
  /\ buffers[ing["i1"].chan] # <<>>
  /\ unanswered # <<>>

\* Thread t takes a step of handle_new_message.
C34_HandleStep(t) ==
  /\ ing[t].pc \in {"notify", "n_iter", "n_mark", "n_pop"}
  /\ \/ ing'[t].pc # ing[t].pc
     \/ ing'[t].idx # ing[t].idx
     \/ ing'[t].nfound # ing[t].nfound

\* The entries of U that are not of channel c, in their order.
C34_Others(U, c) == SelectSeq(U, LAMBDA q : q.chan # c)

\* C34.  A step of handle_new_message for a message of a client or of an
\* unknown author leaves the tracker as it is; for a message of an internal
\* author in channel C it leaves every question of another channel tracked,
\* with its identity, text and deadline.
C34_FrameStep ==
  \A t \in IngestThreads :
    C34_HandleStep(t)
      => IF Answers(ing[t].role)
         THEN C34_Others(unanswered', ing[t].chan)
                = C34_Others(unanswered, ing[t].chan)
         ELSE unanswered' = unanswered

C34_HandleFrame == [][C34_FrameStep]_vars

====
